---- MODULE Spec2Model ----
(***************************************************************************)
(* Model of bitrixutils/bitrix_exchange.py: the Tester exchange session    *)
(* (import_catalog / export_orders), the response classifier, the archive  *)
(* packager, the phase sequencer `sort` and the command line entry `main`. *)
(*                                                                         *)
(* Texts (reply bodies, file names, session ids) are sequences of one      *)
(* character strings, so that startswith, the sessid regular expression,   *)
(* os.path.split, str.split and os.path.splitext are computed character by *)
(* character as the code computes them.                                    *)
(***************************************************************************)
EXTENDS Integers, Sequences, FiniteSets, TLC

\* ------------------------------------------------------------------ bounds
\* most files a catalog directory holds
MaxFiles == 2
\* most 'progress' replies the server gives to one file's import request
MaxPolls == 2

\* ------------------------------------------------------------------ texts
\* Python's None (a one element tuple that is no text: "None" is no character)
None == <<"None">>

LowerAlnum ==
  {"a","b","c","d","e","f","g","h","i","j","k","l","m","n","o","p","q","r","s",
   "t","u","v","w","x","y","z","0","1","2","3","4","5","6","7","8","9"}

\* str.startswith
StartsWith(text, prefix) ==
  /\ Len(text) >= Len(prefix)
  /\ SubSeq(text, 1, Len(prefix)) = prefix

\* position of the first occurrence of ch in text, 0 when there is none
FindFirst(text, ch) ==
  IF \E i \in 1..Len(text) : text[i] = ch
    THEN CHOOSE i \in 1..Len(text) :
           text[i] = ch /\ \A j \in 1..(i - 1) : text[j] # ch
    ELSE 0

\* position of the last occurrence of ch in text, 0 when there is none
FindLast(text, ch) ==
  IF \E i \in 1..Len(text) : text[i] = ch
    THEN CHOOSE i \in 1..Len(text) :
           text[i] = ch /\ \A j \in (i + 1)..Len(text) : text[j] # ch
    ELSE 0

\* the markers of the wire protocol
FailureMark == <<"f","a","i","l","u","r","e">>
ProgressMark == <<"p","r","o","g","r","e","s","s">>
SessidKey == <<"s","e","s","s","i","d","=">>

ACTUAL_VERSION == <<"3",".","1">>
archive_name == <<"c","a","t","a","l","o","g",".","z","i","p">>

\* re.compile('sessid=([a-z0-9]+)').search(text): group(1) of the leftmost
\* match, the longest run of [a-z0-9] after the key; None without a match
MatchAt(text, i) ==
  /\ i + Len(SessidKey) <= Len(text)
  /\ SubSeq(text, i, i + Len(SessidKey) - 1) = SessidKey
  /\ text[i + Len(SessidKey)] \in LowerAlnum

session_id_regex_search(text) ==
  IF \E i \in 1..Len(text) : MatchAt(text, i)
    THEN LET i == CHOOSE k \in 1..Len(text) :
                    MatchAt(text, k) /\ \A j \in 1..(k - 1) : ~MatchAt(text, j)
             from == i + Len(SessidKey)
             to == CHOOSE e \in from..Len(text) :
                     /\ \A j \in from..e : text[j] \in LowerAlnum
                     /\ (e = Len(text) \/ text[e + 1] \notin LowerAlnum)
         IN SubSeq(text, from, to)
    ELSE None

\* ------------------------------------------------------------- file names
\* os.path.split(name)[-1]
BaseName(name) == SubSeq(name, FindLast(name, "/") + 1, Len(name))

\* str.split('_')[0]
SplitUnderscoreFirst(text) ==
  IF FindFirst(text, "_") = 0 THEN text
  ELSE SubSeq(text, 1, FindFirst(text, "_") - 1)

\* os.path.splitext(filename)[-1]: from the last dot of the name, unless the
\* name has no dot or only leading dots before it
SplitExt(filename) ==
  LET dot == FindLast(filename, ".")
  IN IF dot = 0 \/ (\A j \in 1..dot : filename[j] = ".") THEN <<>>
     ELSE SubSeq(filename, dot, Len(filename))

XmlExt == <<".","x","m","l">>

W_import == <<"i","m","p","o","r","t">>
W_offers == <<"o","f","f","e","r","s">>
W_rests == <<"r","e","s","t","s">>
W_prices == <<"p","r","i","c","e","s">>

\* a weight table numbered from 0: `if weight:` then drops the import files
Weight_zero_based(key) ==
  IF key = W_import THEN 0
  ELSE IF key = W_offers THEN 1
  ELSE IF key = W_rests THEN 2
  ELSE IF key = W_prices THEN 3
  ELSE 0

\* the weight table of sort; 0 stands for .get(key) returning None
Weight(key) ==
  IF key = W_import THEN 1
  ELSE IF key = W_offers THEN 2
  ELSE IF key = W_rests THEN 3
  ELSE IF key = W_prices THEN 4
  ELSE 0

\* weight of a file name, as sort computes it
NameWeight(name) == Weight(SplitUnderscoreFirst(BaseName(name)))

\* sequence filter keeping order
RECURSIVE SelectSeqBy(_, _)
SelectSeqBy(s, w) ==
  IF s = <<>> THEN <<>>
  ELSE IF NameWeight(Head(s)) = w THEN <<Head(s)>> \o SelectSeqBy(Tail(s), w)
  ELSE SelectSeqBy(Tail(s), w)

\* sort(files): names with a weight, by ascending weight, sorted() is stable
sort(files) ==
  SelectSeqBy(files, 1) \o SelectSeqBy(files, 2)
    \o SelectSeqBy(files, 3) \o SelectSeqBy(files, 4)

\* a pack_catalog that hands its list through sort before returning it
pack_catalog_sorted(catalog) ==
  sort(SelectSeq(catalog, LAMBDA n : SplitExt(BaseName(n)) = XmlExt))

\* pack_catalog without the extension test: every file counts as a data file
pack_catalog_all(catalog) == catalog

\* pack_catalog: every file goes into the archive, the .xml ones are returned
RECURSIVE pack_catalog(_)
pack_catalog(catalog) ==
  IF catalog = <<>> THEN <<>>
  ELSE IF SplitExt(BaseName(Head(catalog))) = XmlExt
    THEN <<Head(catalog)>> \o pack_catalog(Tail(catalog))
  ELSE pack_catalog(Tail(catalog))


\* ------------------------------------------------------------------ inputs
N_import == W_import \o <<"_","1">> \o XmlExt
N_prices_sub == <<"s","u","b","/">> \o W_prices \o <<"_","1">> \o XmlExt
N_goods == <<"g","o","o","d","s","_","1">> \o XmlExt
N_readme == <<"r","e","a","d","m","e",".","t","x","t">>

\* the files a catalog directory may hold (relative paths)
FileNames == {N_import, N_prices_sub, N_goods, N_readme}

\* a catalog directory, as the sequence of its files in os.walk order
Catalogs ==
  UNION {{c \in [1..n -> FileNames] : \A i, j \in 1..n : i # j => c[i] # c[j]}
         : n \in 0..MaxFiles}

B_empty == <<>>
B_success == <<"s","u","c","c","e","s","s">>
B_success_sessid == B_success \o <<"\n">> \o SessidKey \o <<"a","1">> \o <<"\n">>
B_failure == FailureMark \o <<"\n","n","o">>
B_progress == ProgressMark \o <<"\n","5">>
B_progress_sessid == ProgressMark \o <<"\n">> \o SessidKey \o <<"b">>
B_upper_sessid == B_success \o <<"\n">> \o SessidKey \o <<"A","B">>
B_xml == <<"<","a","/",">">>

Bodies == {B_success, B_success_sessid, B_failure, B_progress,
           B_progress_sessid, B_upper_sessid, B_xml}

\* the replies the server may give to a request
Responses ==
  [status_code : {200}, text : Bodies]
    \cup [status_code : {403}, text : {B_empty}]

NoResponse == [status_code |-> 0, text |-> None]

\* ------------------------------------------------------------------- state
VARIABLES
  old_protocol,   \* Tester.old_protocol
  session_id,     \* Tester.session_id
  session,        \* Tester.session: "None" or "Session"
  pc,             \* position of the running operation; "idle", "exited"
  caller,         \* "none", "main" (the command line) or "api" (Tester used directly)
  run_mode,       \* the operation that runs: "import_catalog", "export_orders"
  arg_old,        \* the old_protocol argument / --old flag the caller gave
  data_files,     \* import_catalog's data_files
  idx,            \* position of the for loop in data_files
  polls,          \* 'progress' replies received for the current file
  archive,        \* files inside the temporary catalog.zip, None when it is gone
  log,            \* the requests issued in this run, each with its reply's class
  response,       \* the last response received
  outcome,        \* "none", "running", "success", "failed"
  error,          \* what was raised: "none", "response", "nosessid", "nofiles", ...
  logged,         \* main's final log line
  exit_code,      \* the process exit status once pc = "exited"
  stdout,         \* what export_orders printed
  catalog,        \* the catalog directory on disk: its files in os.walk order
  files,          \* the argument of a call of sort
  sorted          \* what that call returned, None before it

vars == <<old_protocol, session_id, session, pc, caller, run_mode, arg_old,
          data_files, idx, polls, archive, log, response, outcome, error,
          logged, exit_code, stdout, catalog, files, sorted>>

\* Tester.__init__, before main or a caller starts an operation
Init ==
  /\ old_protocol = TRUE
  /\ session_id = None
  /\ session = "None"
  /\ pc = "idle"
  /\ caller = "none"
  /\ run_mode = "none"
  /\ arg_old = FALSE
  /\ data_files = <<>>
  /\ idx = 1
  /\ polls = 0
  /\ archive = None
  /\ log = <<>>
  /\ response = NoResponse
  /\ outcome = "none"
  /\ error = "none"
  /\ logged = "none"
  /\ exit_code = 0
  /\ stdout = None
  /\ catalog \in Catalogs
  /\ files = <<>>
  /\ sorted = None

\* ------------------------------------------------------- response handling
HTTP_OK == 200

\* check_response without the body check: only the status code is looked at
check_response_status_only(r) == r.status_code # HTTP_OK

\* a check_response that also raises on a body that begins with 'progress'
check_response_progress_fails(r) ==
  \/ r.status_code # HTTP_OK
  \/ StartsWith(r.text, FailureMark)
  \/ StartsWith(r.text, ProgressMark)

\* Tester.check_response: TRUE when it raises TestError
check_response(r) ==
  \/ r.status_code # HTTP_OK
  \/ StartsWith(r.text, FailureMark)

\* _import comparing the whole body with the marker instead of its start
import_again_equal(r) == r.text = ProgressMark

\* an _import that gives up polling after MaxPolls 'progress' replies
import_again_capped(r) == StartsWith(r.text, ProgressMark) /\ polls < MaxPolls

\* Tester._import's return value: the same request is to be repeated
import_again(r) == StartsWith(r.text, ProgressMark)

\* authorise without the else branch that raises when the regex finds nothing
sessid_missing_never(old, r) == FALSE

\* Tester.authorise: the sessid check after a classified-good reply raises
sessid_missing(old, r) ==
  /\ ~old
  /\ session_id_regex_search(r.text) = None

\* Tester.get_protocol_parameters
get_protocol_parameters ==
  IF old_protocol THEN [version |-> None, sessid |-> None]
  ELSE [version |-> ACTUAL_VERSION, sessid |-> session_id]

NoParameters == [version |-> None, sessid |-> None]

\* requests of a session whose auth was set on the Session object: every
\* request carries the credentials
Exchange_session_auth(method, type, mode, filename, pp, auth, r) ==
  [method |-> method, type |-> type, mode |-> mode, filename |-> filename,
   version |-> pp.version, sessid |-> pp.sessid, auth |-> TRUE,
   status |-> r.status_code,
   failure |-> StartsWith(r.text, FailureMark),
   progress |-> StartsWith(r.text, ProgressMark)]

\* one request as it goes on the wire, with the class of the reply it got
Exchange(method, type, mode, filename, pp, auth, r) ==
  [method |-> method, type |-> type, mode |-> mode, filename |-> filename,
   version |-> pp.version, sessid |-> pp.sessid, auth |-> auth,
   status |-> r.status_code,
   failure |-> StartsWith(r.text, FailureMark),
   progress |-> StartsWith(r.text, ProgressMark)]

\* ---------------------------------------------------------- leaving a run
\* a temporary directory removed on the normal return only, no context manager
TemporaryDirectoryExit_on_return(res) ==
  IF res = "success" THEN None ELSE archive

\* `with tempfile.TemporaryDirectory()`: the directory and the archive in it
\* are removed when the block is left, by return or by exception
TemporaryDirectoryExit(res) == None

\* main after the try block: nothing sets an exit status
main_exit_status(res) == 0

\* main's log line: "Exchange complete" after the call returned, the
\* exception otherwise
main_log(res) == IF res = "success" THEN "Exchange complete" ELSE "error"

\* the running operation returns (res = "success") or raises (res = "failed")
Leave(res, err) ==
  /\ outcome' = res
  /\ error' = err
  /\ archive' = IF run_mode = "import_catalog" THEN TemporaryDirectoryExit(res)
                ELSE archive
  /\ IF caller = "main"
       THEN /\ pc' = "exited"
            /\ logged' = main_log(res)
            /\ exit_code' = main_exit_status(res)
       ELSE /\ pc' = "idle"
            /\ UNCHANGED <<logged, exit_code>>


\* ------------------------------------------------------------ entry points
\* Tester.import_catalog up to its first request: pack the catalog into the
\* temporary archive; without data files raise, else open the session
import_catalog_enter(who, old) ==
  /\ caller' = who
  /\ run_mode' = "import_catalog"
  /\ arg_old' = old
  /\ data_files' = pack_catalog(catalog)
  /\ idx' = 1
  /\ polls' = 0
  /\ log' = <<>>
  /\ response' = NoResponse
  /\ stdout' = None
  /\ UNCHANGED <<old_protocol, session_id, catalog>>
  /\ IF Len(pack_catalog(catalog)) # 0
       THEN /\ session' = "Session"
            /\ archive' = catalog
            /\ pc' = "authorise"
            /\ outcome' = "running"
            /\ error' = "none"
            /\ UNCHANGED <<logged, exit_code>>
       ELSE /\ UNCHANGED session
            /\ outcome' = "failed"
            /\ error' = "nofiles"
            /\ archive' = TemporaryDirectoryExit("failed")
            /\ IF who = "main"
                 THEN /\ pc' = "exited"
                      /\ logged' = main_log("failed")
                      /\ exit_code' = main_exit_status("failed")
                 ELSE /\ pc' = "idle"
                      /\ UNCHANGED <<logged, exit_code>>

\* an export_orders that stores its argument instead of False
export_orders_enter_stores_argument(old, who) ==
  /\ caller' = who
  /\ run_mode' = "export_orders"
  /\ arg_old' = old
  /\ old_protocol' = old
  /\ session' = "Session"
  /\ pc' = "authorise"
  /\ outcome' = "running"
  /\ error' = "none"
  /\ log' = <<>>
  /\ response' = NoResponse
  /\ stdout' = None
  /\ data_files' = <<>>
  /\ idx' = 1
  /\ polls' = 0
  /\ UNCHANGED <<session_id, archive, logged, exit_code, catalog>>

\* Tester.export_orders up to its first request
export_orders_enter(old, who) ==
  /\ caller' = who
  /\ run_mode' = "export_orders"
  /\ arg_old' = old
  /\ old_protocol' = FALSE
  /\ session' = "Session"
  /\ pc' = "authorise"
  /\ outcome' = "running"
  /\ error' = "none"
  /\ log' = <<>>
  /\ response' = NoResponse
  /\ stdout' = None
  /\ data_files' = <<>>
  /\ idx' = 1
  /\ polls' = 0
  /\ UNCHANGED <<session_id, archive, logged, exit_code, catalog>>

\* main: argparse rejects the url or the catalog path and exits with status 2
MainUsageError ==
  /\ caller = "none" /\ pc = "idle"
  /\ caller' = "main"
  /\ pc' = "exited"
  /\ exit_code' = 2
  /\ UNCHANGED <<old_protocol, session_id, session, run_mode, arg_old,
                 data_files, idx, polls, archive, log, response, outcome,
                 error, logged, stdout, catalog>>
  /\ UNCHANGED <<files, sorted>>

\* main, mode 'catalog' with a catalog directory
MainImportCatalog ==
  /\ caller = "none" /\ pc = "idle"
  /\ \E old \in BOOLEAN : import_catalog_enter("main", old)
  /\ UNCHANGED <<files, sorted>>

\* main, mode 'catalog' without the optional catalog argument: os.walk(None)
\* raises TypeError inside pack_catalog, main's except clause logs it
MainImportNoCatalog ==
  /\ caller = "none" /\ pc = "idle"
  /\ \E old \in BOOLEAN :
       /\ caller' = "main"
       /\ run_mode' = "import_catalog"
       /\ arg_old' = old
            /\ outcome' = "failed"
       /\ error' = "TypeError"
       /\ archive' = TemporaryDirectoryExit("failed")
       /\ pc' = "exited"
       /\ logged' = main_log("failed")
       /\ exit_code' = main_exit_status("failed")
       /\ UNCHANGED <<old_protocol, session_id, session, data_files, idx,
                      polls, log, response, stdout, catalog>>
  /\ UNCHANGED <<files, sorted>>

\* main, mode 'sale': tester.export_orders(args.old)
MainExportOrders ==
  /\ caller = "none" /\ pc = "idle"
  /\ \E old \in BOOLEAN : export_orders_enter(old, "main")
  /\ UNCHANGED <<files, sorted>>

\* a program that uses Tester directly calls import_catalog
CallImportCatalog ==
  /\ caller \in {"none", "api"} /\ pc = "idle"
  /\ import_catalog_enter("api", FALSE)
  /\ UNCHANGED <<files, sorted>>

\* a program that uses Tester directly calls export_orders
CallExportOrders ==
  /\ caller \in {"none", "api"} /\ pc = "idle"
  /\ \E old \in BOOLEAN : export_orders_enter(old, "api")
  /\ UNCHANGED <<files, sorted>>

\* ------------------------------------------------------------------- steps
\* import_catalog without its upload_file call
after_init_no_upload(m) == IF m = "import_catalog" THEN "import" ELSE "query"

\* export_orders without its get_orders call
after_init_no_query(m) == IF m = "import_catalog" THEN "upload" ELSE "finish"

\* where init's caller goes next: upload_file in import_catalog, get_orders
\* in export_orders
after_init(m) == IF m = "import_catalog" THEN "upload" ELSE "query"

\* Tester.authorise
Authorise ==
  /\ pc = "authorise"
  /\ \E r \in Responses :
       /\ response' = r
       /\ log' = Append(log, Exchange("GET", "sale", "checkauth", None,
                                      NoParameters, TRUE, r))
       /\ IF check_response(r)
            THEN Leave("failed", "response") /\ UNCHANGED session_id
            ELSE IF sessid_missing(old_protocol, r)
              THEN Leave("failed", "nosessid") /\ UNCHANGED session_id
            ELSE /\ session_id' = IF old_protocol THEN session_id
                                  ELSE session_id_regex_search(r.text)
                 /\ pc' = "init"
                 /\ UNCHANGED <<outcome, error, archive, logged, exit_code>>
  /\ UNCHANGED <<old_protocol, session, caller, run_mode, arg_old, data_files,
                 idx, polls, stdout, catalog>>
  /\ UNCHANGED <<files, sorted>>

\* Tester.init
InitStep ==
  /\ pc = "init"
  /\ \E r \in Responses :
       /\ response' = r
       /\ log' = Append(log,
            Exchange("GET",
                     IF run_mode = "import_catalog" THEN "catalog" ELSE "sale",
                     "init", None, get_protocol_parameters, FALSE, r))
       /\ IF check_response(r)
            THEN Leave("failed", "response")
            ELSE /\ pc' = after_init(run_mode)
                 /\ UNCHANGED <<outcome, error, archive, logged, exit_code>>
  /\ UNCHANGED <<old_protocol, session_id, session, caller, run_mode, arg_old,
                 data_files, idx, polls, stdout, catalog>>
  /\ UNCHANGED <<files, sorted>>

\* Tester.upload_file
UploadFile ==
  /\ pc = "upload"
  /\ \E r \in Responses :
       /\ response' = r
       /\ log' = Append(log, Exchange("POST", "catalog", "file", archive_name,
                                      NoParameters, FALSE, r))
       /\ IF check_response(r)
            THEN Leave("failed", "response")
            ELSE /\ pc' = "import"
                 /\ UNCHANGED <<outcome, error, archive, logged, exit_code>>
  /\ UNCHANGED <<old_protocol, session_id, session, caller, run_mode, arg_old,
                 data_files, idx, polls, stdout, catalog>>
  /\ UNCHANGED <<files, sorted>>

\* one pass of `while self._import(filename): pass` for data_files[idx]; a
\* server gives at most MaxPolls 'progress' replies to one file
Import ==
  /\ pc = "import"
  /\ \E r \in Responses :
       /\ (~check_response(r) /\ import_again(r)) => polls < MaxPolls
       /\ response' = r
       /\ log' = Append(log, Exchange("GET", "catalog", "import",
                                      data_files[idx], NoParameters, FALSE, r))
       /\ IF check_response(r)
            THEN Leave("failed", "response") /\ UNCHANGED <<idx, polls>>
            ELSE IF import_again(r)
              THEN /\ polls' = polls + 1
                   /\ UNCHANGED <<idx, pc, outcome, error, archive, logged,
                                  exit_code>>
            ELSE /\ idx' = idx + 1
                 /\ polls' = 0
                 /\ pc' = IF idx = Len(data_files) THEN "finish" ELSE "import"
                 /\ UNCHANGED <<outcome, error, archive, logged, exit_code>>
  /\ UNCHANGED <<old_protocol, session_id, session, caller, run_mode, arg_old,
                 data_files, stdout, catalog>>
  /\ UNCHANGED <<files, sorted>>

\* xml.dom.minidom.parseString accepts the text: on the bodies of this model,
\* a single empty element <name/>
well_formed_xml(text) ==
  /\ Len(text) >= 4
  /\ text[1] = "<"
  /\ text[Len(text) - 1] = "/"
  /\ text[Len(text)] = ">"
  /\ \A i \in 2..(Len(text) - 2) : text[i] \in LowerAlnum

\* format_xml(text): toprettyxml puts the XML declaration first and ends the
\* element with a newline
format_xml(text) ==
  <<"<","?","x","m","l"," ","v","e","r","s","i","o","n","=","\"","1",".","0",
    "\""," ","?",">","\n">> \o text \o <<"\n">>

\* Tester.get_orders, then export_orders prints format_xml(result.text)
GetOrders ==
  /\ pc = "query"
  /\ \E r \in Responses :
       /\ response' = r
       /\ log' = Append(log, Exchange("GET", "sale", "query", None,
                                      get_protocol_parameters, FALSE, r))
       /\ IF check_response(r)
            THEN Leave("failed", "response") /\ UNCHANGED stdout
            ELSE IF ~well_formed_xml(r.text)
              THEN Leave("failed", "ExpatError") /\ UNCHANGED stdout
            ELSE /\ stdout' = format_xml(r.text)
                 /\ pc' = "finish"
                 /\ UNCHANGED <<outcome, error, archive, logged, exit_code>>
  /\ UNCHANGED <<old_protocol, session_id, session, caller, run_mode, arg_old,
                 data_files, idx, polls, catalog>>
  /\ UNCHANGED <<files, sorted>>

\* a finish that also forgets the session id once the exchange is finalized
Finish_forgets_session ==
  /\ pc = "finish"
  /\ \E r \in Responses :
       /\ response' = r
       /\ log' = Append(log, Exchange("GET", "sale", "success", None,
                                      get_protocol_parameters, FALSE, r))
       /\ IF check_response(r)
            THEN Leave("failed", "response")
            ELSE Leave("success", "none")
  /\ session_id' = None
  /\ UNCHANGED <<old_protocol, session, caller, run_mode, arg_old,
                 data_files, idx, polls, stdout, catalog>>
  /\ UNCHANGED <<files, sorted>>

\* Tester.finish, after which the operation returns
Finish ==
  /\ pc = "finish"
  /\ \E r \in Responses :
       /\ response' = r
       /\ log' = Append(log, Exchange("GET", "sale", "success", None,
                                      get_protocol_parameters, FALSE, r))
       /\ IF check_response(r)
            THEN Leave("failed", "response")
            ELSE Leave("success", "none")
  /\ UNCHANGED <<old_protocol, session_id, session, caller, run_mode, arg_old,
                 data_files, idx, polls, stdout, catalog>>
  /\ UNCHANGED <<files, sorted>>

Next ==
  \/ MainUsageError
  \/ MainImportCatalog
  \/ MainImportNoCatalog
  \/ MainExportOrders
  \/ CallImportCatalog
  \/ CallExportOrders
  \/ Authorise
  \/ InitStep
  \/ UploadFile
  \/ Import
  \/ GetOrders
  \/ Finish

Spec == Init /\ [][Next]_vars


\* ------------------------------------------- a server that may stay busy
\* one pass of `while self._import(filename): pass` against a server that may
\* answer 'progress' without end; polls stops counting at MaxPolls and the log
\* keeps only the first MaxPolls 'progress' replies of a file
ImportUncapped ==
  /\ pc = "import"
  /\ \E r \in Responses :
       /\ response' = r
       /\ log' = IF ~check_response(r) /\ import_again(r) /\ polls = MaxPolls
                   THEN log
                   ELSE Append(log, Exchange("GET", "catalog", "import",
                                             data_files[idx], NoParameters,
                                             FALSE, r))
       /\ IF check_response(r)
            THEN Leave("failed", "response") /\ UNCHANGED <<idx, polls>>
            ELSE IF import_again(r)
              THEN /\ polls' = IF polls < MaxPolls THEN polls + 1 ELSE polls
                   /\ UNCHANGED <<idx, pc, outcome, error, archive, logged,
                                  exit_code>>
            ELSE /\ idx' = idx + 1
                 /\ polls' = 0
                 /\ pc' = IF idx = Len(data_files) THEN "finish" ELSE "import"
                 /\ UNCHANGED <<outcome, error, archive, logged, exit_code>>
  /\ UNCHANGED <<old_protocol, session_id, session, caller, run_mode, arg_old,
                 data_files, stdout, catalog>>
  /\ UNCHANGED <<files, sorted>>

\* main in catalog mode against such a server
PollNext ==
  \/ MainImportCatalog
  \/ Authorise
  \/ InitStep
  \/ UploadFile
  \/ ImportUncapped
  \/ Finish

\* the client is one blocking thread: it always takes its next step, and every
\* request it sends is answered
PollSpec == Init /\ [][PollNext]_vars /\ WF_vars(PollNext)

\* ------------------------------------------------------- sort on its own
\* longest list handed to sort
MaxSortLen == 3

S_import_dir == <<"a","_","b","/">> \o W_import \o <<"_","2">> \o XmlExt
S_offers == W_offers \o <<"_","1">> \o XmlExt
S_rests == W_rests \o <<"_","1">> \o XmlExt
S_prices == W_prices \o <<"_","1">> \o XmlExt
S_import_bare == W_import \o XmlExt

\* names handed to sort: the four prefixes, a second import file below a
\* directory with an underscore in its name, an unknown prefix, and a name
\* without underscore
SortNames ==
  {N_import, S_import_dir, S_offers, S_rests, S_prices, N_goods, S_import_bare}

SortInputs == UNION {[1..n -> SortNames] : n \in 0..MaxSortLen}

SortInit ==
  /\ old_protocol = TRUE
  /\ session_id = None
  /\ session = "None"
  /\ pc = "sort"
  /\ caller = "none"
  /\ run_mode = "none"
  /\ arg_old = FALSE
  /\ data_files = <<>>
  /\ idx = 1
  /\ polls = 0
  /\ archive = None
  /\ log = <<>>
  /\ response = NoResponse
  /\ outcome = "none"
  /\ error = "none"
  /\ logged = "none"
  /\ exit_code = 0
  /\ stdout = None
  /\ catalog = <<>>
  /\ files \in SortInputs
  /\ sorted = None

\* a call of sort(files)
SortCall ==
  /\ pc = "sort"
  /\ sorted' = sort(files)
  /\ pc' = "sorted"
  /\ UNCHANGED <<old_protocol, session_id, session, caller, run_mode, arg_old,
                 data_files, idx, polls, archive, log, response, outcome,
                 error, logged, exit_code, stdout, catalog, files>>

SortNext == SortCall

SortSpec == SortInit /\ [][SortNext]_vars

\* ================================================================== claims
Range(q) == {q[i] : i \in 1..Len(q)}

Terminal == pc \in {"idle", "exited"} /\ outcome \in {"success", "failed"}

\* the reply of log entry e is classified as a failure: not 200, or 'failure'
FailureReply(e) == e.status # 200 \/ e.failure

\* the reply of log entry e is a 200 'progress' reply
ProgressReply(e) == e.status = 200 /\ ~e.failure /\ e.progress

\* the reply of log entry e is 200 and begins with neither marker
PlainReply(e) == e.status = 200 /\ ~e.failure /\ ~e.progress

\* positions of the import requests for file f
ImportsOf(f) ==
  {i \in 1..Len(log) : log[i].mode = "import" /\ log[i].filename = f}

\* C1: on every step, a reply that is not 200 or whose body begins with
\* 'failure' ends the run in failure at that step: the request that got it is
\* the last request of the run.
C1_FailureAborts ==
  \A i \in 1..Len(log) :
    FailureReply(log[i]) =>
      /\ i = Len(log)
      /\ outcome = "failed"
      /\ error = "response"
      /\ pc \in {"idle", "exited"}

\* a 200 'failure' reply to the third or a later request ended the run
C1_Witness ==
  /\ Len(log) >= 3
  /\ log[Len(log)].status = 200
  /\ log[Len(log)].failure
  /\ outcome = "failed"

C3_PollsUntilDone ==
  /\ \A i \in 1..Len(log) :
       (log[i].mode = "import" /\ ProgressReply(log[i])) =>
         IF i < Len(log)
           THEN /\ log[i + 1].mode = "import"
                /\ log[i + 1].filename = log[i].filename
                /\ log[i + 1].method = log[i].method
                /\ log[i + 1].type = log[i].type
           ELSE /\ pc = "import"
                /\ data_files[idx] = log[i].filename
  /\ \A f \in Range(data_files) :
       (\E i \in ImportsOf(f) : PlainReply(log[i])) =>
         /\ Cardinality(ImportsOf(f))
              = Cardinality({i \in ImportsOf(f) : ProgressReply(log[i])}) + 1
         /\ \A i, j \in ImportsOf(f) :
              \A k \in i..j : k \in ImportsOf(f)
         /\ \A i \in ImportsOf(f) :
              PlainReply(log[i]) => \A j \in ImportsOf(f) : j <= i

\* a file was requested MaxPolls + 1 times and the loop went on to the next
\* step
C3_Witness ==
  \E f \in Range(data_files) :
    /\ Cardinality(ImportsOf(f)) = MaxPolls + 1
    /\ \E i \in ImportsOf(f) : PlainReply(log[i])
    /\ pc = "finish"

\* the reply body carries a 'sessid=<alphanumeric>' token, upper case included
UpperAlpha ==
  {"A","B","C","D","E","F","G","H","I","J","K","L","M","N","O","P","Q","R","S",
   "T","U","V","W","X","Y","Z"}

HasSessidToken(text) ==
  \E i \in 1..Len(text) :
    /\ i + Len(SessidKey) <= Len(text)
    /\ SubSeq(text, i, i + Len(SessidKey) - 1) = SessidKey
    /\ text[i + Len(SessidKey)] \in LowerAlnum \cup UpperAlpha

\* C4: under the versioned protocol, a 200 non-failure checkauth reply without
\* a sessid token ends the run in failure with checkauth as its only request.
C4_MissingSessidAborts ==
  ( /\ ~old_protocol
    /\ Len(log) = 1
    /\ log[1].mode = "checkauth"
    /\ response.status_code = 200
    /\ ~StartsWith(response.text, FailureMark)
    /\ ~HasSessidToken(response.text) )
  => /\ outcome = "failed"
     /\ error = "nosessid"
     /\ pc \in {"idle", "exited"}

\* the versioned checkauth got 200 'success' without a token
C4_Witness ==
  /\ ~old_protocol
  /\ Len(log) = 1
  /\ response = [status_code |-> 200, text |-> B_success]
  /\ error = "nosessid"

\* C5 (as claimed): no import request names a file whose prefix is not one of
\* import, offers, rests, prices.
C5_NoImportOfUnrecognised ==
  \A i \in 1..Len(log) :
    log[i].mode = "import" => NameWeight(log[i].filename) # 0

\* C6 (as claimed): when the caller asked for the legacy protocol, a missing
\* sessid does not fail the run and no request carries version or sessid.
C6_LegacyWhenSelected ==
  arg_old =>
    /\ error # "nosessid"
    /\ \A i \in 1..Len(log) : log[i].version = None /\ log[i].sessid = None

\* C7 (as claimed): under the versioned protocol every init, import, query
\* and success request carries version=3.1 and the extracted sessid.
C7_VersionedParameters ==
  ~old_protocol =>
    \A i \in 2..Len(log) :
      log[i].mode \in {"init", "import", "query", "success"} =>
        /\ log[i].version = ACTUAL_VERSION
        /\ log[i].sessid = session_id

\* C8 (as claimed): the exit status is zero exactly when the exchange
\* succeeded, and 'Exchange complete' is logged exactly then.
C8_ExitStatusReflectsOutcome ==
  pc = "exited" =>
    /\ (exit_code = 0) <=> (outcome = "success")
    /\ (logged = "Exchange complete") <=> (outcome = "success")

\* position of a request in the catalog import sequence
Rank(e) ==
  CASE e.mode = "checkauth" -> 1
    [] e.mode = "init" -> 2
    [] e.mode = "file" -> 3
    [] e.mode = "import" -> 4
    [] e.mode = "success" -> 5
    [] OTHER -> 0

\* C9: a catalog import run issues checkauth, init(type=catalog), upload, the
\* import requests, success, in that order and without skipping a step;
\* checkauth, init, upload and success at most once; a request follows only a
\* 200 non-failure reply; success follows only when every data file got a
\* plain reply; a run that ended without a failure reply (and, under the
\* versioned variant, without a missing sessid) ended in success; one data
\* file with one 'progress' reply makes 6 requests.
C9_CatalogSequence ==
  run_mode = "import_catalog" =>
    /\ \A i \in 1..Len(log) :
         /\ Rank(log[i]) = (IF i = 1 THEN 1
                            ELSE IF Rank(log[i - 1]) = 4 THEN Rank(log[i])
                            ELSE Rank(log[i - 1]) + 1)
         /\ Rank(log[i]) \in 1..5
         /\ i > 1 => Rank(log[i]) \in {Rank(log[i - 1]), Rank(log[i - 1]) + 1}
         /\ i > 1 => ~FailureReply(log[i - 1])
         /\ log[i].mode = "init" => log[i].type = "catalog"
         /\ log[i].mode = "success" =>
              \A f \in Range(data_files) :
                \E k \in ImportsOf(f) : k < i /\ PlainReply(log[k])
    /\ \A i, j \in 1..Len(log) :
         (i # j /\ Rank(log[i]) = Rank(log[j])) => Rank(log[i]) = 4
    /\ (Terminal /\ log # <<>> /\ ~FailureReply(log[Len(log)])
          /\ error # "nosessid")
         => (outcome = "success" /\ log[Len(log)].mode = "success")
    /\ ( /\ outcome = "success"
         /\ Len(data_files) = 1
         /\ Cardinality({i \in 1..Len(log) : ProgressReply(log[i])
                                              /\ log[i].mode = "import"}) = 1 )
         => Len(log) = 6

\* a catalog import of one data file with one 'progress' reply succeeded
C9_Witness ==
  /\ run_mode = "import_catalog"
  /\ outcome = "success"
  /\ Len(data_files) = 1
  /\ Len(log) = 6
  /\ log[4].progress

\* C10: the archive exists only while import_catalog runs: it is gone in
\* every terminal state, after success and after a failure at any step.
C10_ArchiveRemoved ==
  /\ pc \in {"idle", "exited"} => archive = None
  /\ archive # None => run_mode = "import_catalog"

\* import_catalog failed at an import request and the archive is gone
C10_Witness ==
  /\ run_mode = "import_catalog"
  /\ outcome = "failed"
  /\ Len(log) >= 4
  /\ log[Len(log)].mode = "import"
  /\ archive = None

\* the base name of a path: its longest suffix without a slash
ClaimBase(name) ==
  CHOOSE b \in {SubSeq(name, k, Len(name)) : k \in 1..(Len(name) + 1)} :
    /\ \A i \in 1..Len(b) : b[i] # "/"
    /\ (Len(b) = Len(name) \/ name[Len(name) - Len(b)] = "/")

\* the prefix of a base name up to its first underscore
ClaimPrefix(b) ==
  CHOOSE q \in {SubSeq(b, 1, k) : k \in 0..Len(b)} :
    /\ \A i \in 1..Len(q) : q[i] # "_"
    /\ (Len(q) = Len(b) \/ b[Len(q) + 1] = "_")

\* priority import < offers < rests < prices, 0 for any other prefix
ClaimPriority(name) ==
  LET q == ClaimPrefix(ClaimBase(name))
  IN CASE q = <<"i","m","p","o","r","t">> -> 1
       [] q = <<"o","f","f","e","r","s">> -> 2
       [] q = <<"r","e","s","t","s">> -> 3
       [] q = <<"p","r","i","c","e","s">> -> 4
       [] OTHER -> 0

\* C11: sort(files) returns exactly the names of files whose prefix is one of
\* import, offers, rests, prices (each as often as it occurs), in ascending
\* priority, names of equal priority in their input order; import_1.xml,
\* prices_1.xml, offers_1.xml gives import_1.xml, offers_1.xml, prices_1.xml.
C11_SortContract ==
  sorted # None =>
    LET keep == {i \in 1..Len(files) : ClaimPriority(files[i]) # 0}
    IN /\ Len(sorted) = Cardinality(keep)
       /\ \E p \in [1..Len(sorted) -> keep] :
            /\ \A k, l \in 1..Len(sorted) : k # l => p[k] # p[l]
            /\ \A k \in 1..Len(sorted) : sorted[k] = files[p[k]]
            /\ \A k, l \in 1..Len(sorted) :
                 k < l =>
                   \/ ClaimPriority(files[p[k]]) < ClaimPriority(files[p[l]])
                   \/ /\ ClaimPriority(files[p[k]]) = ClaimPriority(files[p[l]])
                      /\ p[k] < p[l]
       /\ files = <<N_import, S_prices, S_offers>>
            => sorted = <<N_import, S_offers, S_prices>>

\* sort was handed prices and then two import files, and
\* returned the import files in input order before prices
C11_Witness ==
  /\ files = <<S_prices, S_import_dir, N_import>>
  /\ sorted = <<S_import_dir, N_import, S_prices>>

\* str.endswith
EndsWith(text, suffix) ==
  /\ Len(text) >= Len(suffix)
  /\ SubSeq(text, Len(text) - Len(suffix) + 1, Len(text)) = suffix

\* the catalog directory holds no file whose name ends in .xml
NoXmlFile(c) == \A i \in 1..Len(c) : ~EndsWith(c[i], <<".","x","m","l">>)

\* C12: import_catalog on a directory without any .xml file ends in failure
\* 'Not found files for import'; the call opens no HTTP session and issues no
\* request.
C12_NoFilesNoRequest ==
  /\ []( ( /\ run_mode = "import_catalog"
           /\ error # "TypeError"
           /\ NoXmlFile(catalog) )
         => /\ outcome = "failed"
            /\ error = "nofiles"
            /\ log = <<>>
            /\ pc \in {"idle", "exited"} )
  /\ [][ ( /\ pc = "idle"
           /\ run_mode' = "import_catalog"
           /\ NoXmlFile(catalog) )
         => /\ session' = session
            /\ log' = <<>> ]_vars

\* import_catalog was called on a directory that holds only readme.txt
C12_Witness ==
  /\ run_mode = "import_catalog"
  /\ catalog = <<N_readme>>
  /\ error = "nofiles"
  /\ log = <<>>

\* position of a request in the order export sequence
ExportRank(e) ==
  CASE e.mode = "checkauth" -> 1
    [] e.mode = "init" -> 2
    [] e.mode = "query" -> 3
    [] e.mode = "success" -> 4
    [] OTHER -> 0

\* C13: an order export run issues checkauth, init(type=sale), query,
\* success, each at most once and in that order, each only after a 200
\* non-failure reply to the one before; something is printed only after the
\* query got a 200 non-failure reply, and it is that reply's body; in both
\* modes the finalize request is GET type=sale&mode=success and is the last
\* request of a successful run.
C13_ExportSequence ==
  /\ run_mode = "export_orders" =>
       /\ Len(log) <= 4
       /\ \A i \in 1..Len(log) :
            /\ ExportRank(log[i]) = i
            /\ i > 1 => ~FailureReply(log[i - 1])
            /\ log[i].mode = "init" => log[i].type = "sale"
       /\ stdout # None =>
            /\ Len(log) >= 3
            /\ log[3].mode = "query"
            /\ ~FailureReply(log[3])
       /\ (Len(log) = 3 /\ pc = "finish") =>
            /\ stdout # None
            /\ EndsWith(stdout, response.text \o <<"\n">>)
  /\ \A i \in 1..Len(log) :
       log[i].mode = "success" =>
         /\ log[i].type = "sale"
         /\ log[i].method = "GET"
         /\ log[i].filename = None
  /\ outcome = "success" => log[Len(log)].mode = "success"

\* an order export ran all four requests and printed the orders
C13_Witness ==
  /\ run_mode = "export_orders"
  /\ outcome = "success"
  /\ Len(log) = 4
  /\ stdout # None

\* C14: within a run, once authorise is over, no step changes old_protocol or
\* session_id (init, upload, import, query and finalize leave both alone);
\* session_id is written by the authorise step only, which leaves
\* old_protocol alone.
C14_VariantFixed ==
  [][ /\ pc \in {"init", "upload", "import", "query", "finish"} =>
           (old_protocol' = old_protocol /\ session_id' = session_id)
      /\ session_id' # session_id => pc = "authorise"
      /\ pc = "authorise" => old_protocol' = old_protocol ]_vars

\* a versioned run kept its extracted session id up to its successful end
C14_Witness ==
  /\ ~old_protocol
  /\ session_id # None
  /\ outcome = "success"
  /\ Len(log) >= 4

\* the last response is a 200 reply whose body begins with 'progress'
BusyResponse(r) ==
  r.status_code = 200 /\ StartsWith(r.text, <<"p","r","o","g","r","e","s","s">>)

\* C15: the catalog import ends exactly when every data file it reaches gets
\* a reply that is not a 200 'progress' reply. A run that is over has such a
\* reply for every file it requested; a 'progress' reply, however many came
\* before, keeps the client on the same file (no cap, no finalize request);
\* and a run either ends or stays in the import loop for ever with every
\* reply a 'progress' reply.
C15_TerminatesIffServerDone ==
  /\ []( pc = "exited" =>
           \A i \in 1..Len(log) :
             log[i].mode = "import" =>
               \E k \in ImportsOf(log[i].filename) : ~ProgressReply(log[k]) )
  /\ [][ (pc = "import" /\ BusyResponse(response')) =>
           /\ pc' = "import"
           /\ idx' = idx
           /\ outcome' = "running"
           /\ \A i \in 1..Len(log') : log'[i].mode # "success" ]_vars
  /\ ( <>(pc = "exited")
       \/ <>[](pc = "import" /\ BusyResponse(response)) )

\* the server has answered 'progress' MaxPolls times or more to one file and
\* the client is about to ask again
C15_Witness ==
  /\ pc = "import"
  /\ polls = MaxPolls
  /\ BusyResponse(response)
  /\ log[Len(log)].mode = "import"

\* C16: the login and password go with the checkauth request only, and
\* checkauth is the first request of every run.
C16_CredentialsOnCheckauthOnly ==
  /\ \A i \in 1..Len(log) : log[i].auth <=> (log[i].mode = "checkauth")
  /\ \A i \in 1..Len(log) : (log[i].mode = "checkauth") <=> (i = 1)

\* a run got as far as its fourth request; only the first carried credentials
C16_Witness ==
  /\ Len(log) >= 4
  /\ log[1].auth
  /\ ~log[2].auth /\ ~log[3].auth /\ ~log[4].auth

\* C17 (as claimed): on no step does a 200 'progress' reply put the session
\* in the failed state.
C17_ProgressNeverFails ==
  (log # <<>> /\ ProgressReply(log[Len(log)])) => outcome # "failed"

\* C17 (amended): only import repeats its request after a 200 'progress'
\* reply. After such a reply to checkauth, init, upload or success the
\* request is not repeated, check_response does not raise and the run goes on
\* to its next step, unless it was a versioned checkauth without a sessid,
\* which fails the run. After such a reply to query the request is not
\* repeated either, but the run fails in format_xml: the body is no XML.
C17_ProgressOnlyRetriesImport ==
  \A i \in 1..Len(log) :
    (ProgressReply(log[i]) /\ log[i].mode # "import") =>
      IF i < Len(log)
        THEN /\ log[i + 1].mode # log[i].mode
             /\ log[i].mode = "checkauth" => log[i + 1].mode = "init"
             /\ log[i].mode = "init" => log[i + 1].mode \in {"file", "query"}
             /\ log[i].mode = "file" => log[i + 1].mode = "import"
             /\ log[i].mode \notin {"query", "success"}
        ELSE /\ error # "response"
             /\ log[i].mode = "checkauth" =>
                  \/ pc = "init" /\ outcome = "running"
                  \/ /\ ~old_protocol
                     /\ session_id_regex_search(response.text) = None
                     /\ outcome = "failed"
                     /\ error = "nosessid"
             /\ log[i].mode = "init" =>
                  pc \in {"upload", "query"} /\ outcome = "running"
             /\ log[i].mode = "file" => pc = "import" /\ outcome = "running"
             /\ log[i].mode = "query" =>
                  outcome = "failed" /\ error = "ExpatError"
             /\ log[i].mode = "success" => outcome = "success"

\* init got a 200 'progress' reply and the run went on to its next request
C17_Witness ==
  /\ Len(log) >= 3
  /\ log[2].mode = "init"
  /\ ProgressReply(log[2])
  /\ log[3].mode \in {"file", "query"}

IsXmlName(n) == EndsWith(n, <<".","x","m","l">>)

IsImportEntry(e) == e.mode = "import"

\* C19: the import requests of a catalog run visit the .xml files in the
\* order the packager met them in the directory walk: the first import names
\* the first data file, each further import names the same file or the next
\* one of the list (one block per file, never back to an earlier file), and
\* a successful run has reached the last file, so every data file was
\* requested before finalize.
C19_ImportsInPackagerOrder ==
  (run_mode = "import_catalog" /\ error # "TypeError") =>
    LET imps == SelectSeq(log, IsImportEntry)
        Pos(k) == CHOOSE j \in 1..Len(data_files) :
                    data_files[j] = imps[k].filename
    IN /\ data_files = SelectSeq(catalog, IsXmlName)
       /\ \A k \in 1..Len(imps) : imps[k].filename \in Range(data_files)
       /\ Len(imps) > 0 => Pos(1) = 1
       /\ \A k \in 2..Len(imps) : Pos(k) \in {Pos(k - 1), Pos(k - 1) + 1}
       /\ outcome = "success" =>
            /\ Len(imps) > 0
            /\ Pos(Len(imps)) = Len(data_files)
            /\ log[Len(log)].mode = "success"
            /\ \A i \in 1..(Len(log) - 1) : log[i].mode # "success"

\* a successful run imported sub/prices_1.xml before import_1.xml, the order
\* of the directory walk
C19_Witness ==
  /\ run_mode = "import_catalog"
  /\ outcome = "success"
  /\ data_files = <<N_prices_sub, N_import>>
  /\ log[4].filename = N_prices_sub
  /\ log[Len(log) - 1].filename = N_import

====
